---- MODULE Spec2Model ----
(***************************************************************************)
(* A model of streamlit_app.py, the OHCA sodium-bicarbonate ITE predictor. *)
(*                                                                         *)
(* One Streamlit process serves script runs.  Every page load or form      *)
(* submission runs the script from its first line: load_resources (cached  *)
(* by st.cache_resource), the input form, and, when the form was           *)
(* submitted, record assembly, imputation, the model's effect call, the    *)
(* metric and the recommendation.  The script position is pc; the          *)
(* elements written to the page by the current run are rendered.           *)
(*                                                                         *)
(* Floats are fixed-point integers with five decimals (0.06 is 6000), so   *)
(* that the comparisons against the cutoffs and the %.2f / %.1f formatting *)
(* are computed and not assumed.  Field values are whole numbers.          *)
(***************************************************************************)
EXTENDS Integers, Sequences, FiniteSets, TLC

VARIABLES
    disk,        \* the four artifact files beside the script
    cache,       \* st.cache_resource's entries for load_resources
    loads,       \* completed executions of load_resources' body
    bodyRuns,    \* executions of load_resources' body started (cache misses)
    runs,        \* script runs started in this process
    pc,          \* position of the current script run
    query,       \* key/value parameters of the request's URL
    locals,      \* the names the current script run has bound, with their values
    rendered,    \* the elements this run has written to the page
    calls,       \* the external calls this run has made, in order
    outcome      \* how the current script run ended, once it has

vars == <<disk, cache, loads, bodyRuns, runs, pc, query, locals, rendered,
          calls, outcome>>

\* How many script runs one behaviour follows.
MaxRuns == 3

\* A namespace with no name bound, a URL with no parameter.
Empty == [n \in {} |-> 0]

Bound(n) == n \in DOMAIN locals

-----------------------------------------------------------------------------
(* The form's fields *)

\* The keys of input_data, in the order the dict literal writes them.
Fields ==
    << "age", "sex", "responsetime", "scenetohosptime", "place_new",
       "witnessed_core", "bystander_core", "aed_core", "airway", "bosmin_core",
       "initialrhythm_core", "lactic", "ph", "hco3", "pco2", "be", "cre",
       "na", "k", "etco2_core" >>

SeqToSet(s) == { s[i] : i \in 1..Len(s) }

FieldNames == SeqToSet(Fields)

\* The value= of each widget (a selectbox starts on its first option, 0).
Defaults ==
    [ age |-> 65, sex |-> 0, place_new |-> 0, witnessed_core |-> 0,
      bystander_core |-> 0, responsetime |-> 5, scenetohosptime |-> 15,
      aed_core |-> 0, airway |-> 0, bosmin_core |-> 0,
      initialrhythm_core |-> 0, etco2_core |-> 0, lactic |-> 0, ph |-> 7,
      hco3 |-> 20, pco2 |-> 40, be |-> 0, cre |-> 1, na |-> 140, k |-> 4 ]

\* What a user may type into the Age field instead of leaving it alone.
AgeEdits == {40}

\* The options of the Sex selectbox.
SexOptions == {0, 1}

-----------------------------------------------------------------------------
(* The artifacts.  They are produced outside this repository; the script   *)
(* only loads them, so the model draws them from the sets below.           *)

\* A covariate list that names the fields in another order.
SexFirst == <<Fields[2], Fields[1]>> \o SubSeq(Fields, 3, Len(Fields))

\* A covariate list that names a column the form does not collect.
WithUnknown == <<"gcs">> \o SubSeq(Fields, 2, Len(Fields))

\* A covariate list that leaves the last field out.
Shorter == SubSeq(Fields, 1, Len(Fields) - 1)

CovariateLists == {Fields, SexFirst, WithUnknown, Shorter}

\* ite_tertile_cutoffs: the list of the comment at line 134, one with other
\* outer values, one whose two inner values coincide, and one too short to
\* index.  The inner values are in ascending order, as tertile cutoffs are.
CutoffLists ==
    { <<-27000, -4000, 6000, 25000>>,
      <<-5000, -4000, 6000, 7000>>,
      <<-27000, 2000, 2000, 25000>>,
      <<-4000, 6000>> }

\* The imputer was fitted on a fixed number of columns.
Imputers == { [n_features_in |-> n] : n \in {Len(Fields), Len(Fields) - 1} }

\* The estimator is opaque: a stand-in that is a deterministic function of the
\* array it is given (the first column weighs in when slope is 1), fitted on a
\* fixed number of columns.
Models ==
    { [intercept |-> i, slope |-> 0, n_features_in |-> Len(Fields)] :
        i \in {-10000, -4000, 2000, 6000, 10000} }
    \cup
    { [intercept |-> i, slope |-> 1, n_features_in |-> Len(Fields)] :
        i \in {-4, 5940} }
    \cup
    { [intercept |-> 2000, slope |-> 0, n_features_in |-> Len(Fields) - 1] }

ArtifactNames == {"model", "covariates", "cutoffs", "imputer"}

\* What the directory of the script may hold: each file is there or not
\* (present), and a file that is there holds one of the artifacts above.
Disks ==
    { d \in [ present : SUBSET ArtifactNames,
              model : Models,
              covariates : CovariateLists,
              cutoffs : CutoffLists,
              imputer : Imputers ] :
        /\ "model" \notin d.present => d.model = CHOOSE m \in Models : TRUE
        /\ "covariates" \notin d.present => d.covariates = Fields
        /\ "cutoffs" \notin d.present
             => d.cutoffs = CHOOSE c \in CutoffLists : TRUE
        /\ "imputer" \notin d.present
             => d.imputer = CHOOSE i \in Imputers : TRUE }

-----------------------------------------------------------------------------
(* Number formatting: Python's format(x, ".<d>f")                          *)

Abs(x) == IF x < 0 THEN -x ELSE x

DigitChar(d) == <<"0", "1", "2", "3", "4", "5", "6", "7", "8", "9">>[d + 1]

RECURSIVE Digits(_)
\* The decimal digits of a natural number, without leading zeros.
Digits(n) ==
    IF n < 10 THEN <<DigitChar(n)>>
    ELSE Append(Digits(n \div 10), DigitChar(n % 10))

RECURSIVE FracDigits(_, _)
\* The last d decimal digits of n, zero-padded.
FracDigits(n, d) ==
    IF d = 0 THEN <<>>
    ELSE Append(FracDigits(n \div 10, d - 1), DigitChar(n % 10))

\* |x| in units of 10^-d, rounded to nearest.  The float nearest to a decimal
\* tie lies on either side of it, so a tie rounds either way.
Rounded(x, d) ==
    LET unit == 10 ^ (5 - d)
        q == Abs(x) \div unit
        r == Abs(x) % unit
    IN  IF 2 * r < unit THEN {q}
        ELSE IF 2 * r > unit THEN {q + 1}
        ELSE {q, q + 1}

\* The strings f"{x:.<d>f}" may be, as sequences of characters.  The sign of a
\* negative x is kept even when the digits round to zero.
FormatFixed(x, d) ==
    { (IF x < 0 THEN <<"-">> ELSE <<>>)
        \o Digits(q \div (10 ^ d)) \o <<".">> \o FracDigits(q % (10 ^ d), d) :
      q \in Rounded(x, d) }

-----------------------------------------------------------------------------
(* The steps of the prediction                                             *)

\* input_data built from the widgets' defaults instead of the values the
\* widgets returned.
InputDataFromDefaults(f) ==
    [columns |-> Fields, row |-> [i \in 1..Len(Fields) |-> Defaults[Fields[i]]]]

\* input_data / pd.DataFrame(input_data): one row, the columns in the order
\* the dict literal writes them.
InputData(f) ==
    [columns |-> Fields, row |-> [i \in 1..Len(Fields) |-> f[Fields[i]]]]

\* Whether frame[cols] raises KeyError.
SelectRaises(frame, cols) ==
    \E i \in 1..Len(cols) : cols[i] \notin SeqToSet(frame.columns)

\* The selection left out: the frame keeps the dict literal's order.
SelectColumnsUnordered(frame, cols) == frame

\* frame[cols]: the columns cols names, in cols' order.
SelectColumns(frame, cols) ==
    [ columns |-> cols,
      row |-> [ i \in 1..Len(cols) |->
                  frame.row[CHOOSE j \in 1..Len(frame.columns) :
                                frame.columns[j] = cols[i]] ] ]

\* Whether imputer.transform(frame) raises: the column count differs from the
\* one it was fitted on.
TransformRaises(imp, frame) == Len(frame.columns) # imp.n_features_in

\* imputer.transform(frame): an array, the column names dropped; no value is
\* missing, so none is replaced.
Transform(imp, frame) == frame.row

\* Whether model.effect(X) raises.
EffectRaises(m, X) == Len(X) # m.n_features_in

\* model.effect(X)[0]
Effect(m, X) == m.intercept + m.slope * X[1]

\* The percentage without the factor.
ItePercentUnscaled(ite) == ite

\* ite_percent = ite_pred * 100
ItePercent(ite) == ite * 100

\* Whether cutoffs[1] or cutoffs[2] raises IndexError (Python counts from 0).
CutoffsRaise(c) == Len(c) < 3

\* The lower bound read from the first cutoff.
LowerBoundFirst(c) == c[1]

\* lower_bound = cutoffs[1]
LowerBound(c) == c[2]

\* upper_bound = cutoffs[2]
UpperBound(c) == c[3]

\* The comparisons made inclusive.
RecommendationInclusive(ite, lower, upper) ==
    IF ite >= upper THEN "give"
    ELSE IF ite <= lower THEN "do_not_give"
    ELSE "no_difference"

\* The if / elif / else over ite_pred.
Recommendation(ite, lower, upper) ==
    IF ite > upper THEN "give"
    ELSE IF ite < lower THEN "do_not_give"
    ELSE "no_difference"

-----------------------------------------------------------------------------
(* The page                                                                *)

\* One element written to the page: the st.<kind> call, its fixed message and
\* the characters interpolated into it.
El(kind, msg, text) == [kind |-> kind, msg |-> msg, text |-> text]

\* A name bound in the run's namespace; a later binding replaces an earlier.
Bind(ns, name, value) == (name :> value) @@ ns

\* The run is over: nothing follows in the script, or st.stop() was called, or
\* an exception left the script (Streamlit prints it on the page).
EndRun(how) ==
    /\ pc' = "idle"
    /\ outcome' = how

-----------------------------------------------------------------------------
(* load_resources and its cache                                            *)

\* Only the model file is required.
LoadRaisesModelOnly(d) == "model" \notin d.present

\* Whether one of the four joblib.load calls raises.
LoadRaises(d) == d.present # ArtifactNames

\* The tuple load_resources returns.
LoadedArtifacts(d) ==
    [ model |-> d.model, covariates |-> d.covariates,
      cutoffs |-> d.cutoffs, imputer |-> d.imputer ]

\* The decorator left out: every call runs the body.
CacheNeverHit == FALSE

\* @st.cache_resource: the call is answered from the cache when it holds an
\* entry (the function takes no argument, so there is one key).
CacheHit == cache # {}

\* model, covariates_list, cutoffs, imputer = load_resources()
BindArtifacts(ns, a) ==
    [ model |-> a.model, covariates_list |-> a.covariates,
      cutoffs |-> a.cutoffs, imputer |-> a.imputer ] @@ ns

-----------------------------------------------------------------------------
(* The script                                                              *)

Init ==
    /\ disk \in Disks
    /\ cache = {}
    /\ loads = 0
    /\ bodyRuns = 0
    /\ runs = 0
    /\ pc = "idle"
    /\ query = Empty
    /\ locals = Empty
    /\ rendered = <<>>
    /\ calls = <<>>
    /\ outcome = "none"

\* A page load or a press of the submit button: Streamlit runs the script from
\* its first line with a new namespace and a cleared page.
Rerun ==
    /\ pc = "idle"
    /\ runs < MaxRuns
    /\ runs' = runs + 1
    /\ pc' = "load"
    /\ locals' = Empty
    /\ rendered' = <<>>
    /\ calls' = <<>>
    /\ outcome' = "running"
    /\ UNCHANGED <<disk, cache, loads, bodyRuns, query>>

\* Lines 11-27: the cached load, and the try / except around it.
LoadResources ==
    /\ pc = "load"
    /\ IF CacheHit
       THEN /\ locals' = BindArtifacts(locals, CHOOSE a \in cache : TRUE)
            /\ rendered' = Append(rendered, El("success", "Models loaded successfully!", <<>>))
            /\ pc' = "form"
            /\ UNCHANGED <<cache, loads, bodyRuns, outcome>>
       ELSE IF LoadRaises(disk)
       THEN /\ bodyRuns' = bodyRuns + 1
            /\ rendered' = Append(rendered, El("error", "Error loading models", <<>>))
            /\ EndRun("stopped")
            /\ UNCHANGED <<cache, loads, locals>>
       ELSE /\ bodyRuns' = bodyRuns + 1
            /\ loads' = loads + 1
            /\ cache' = {LoadedArtifacts(disk)}
            /\ locals' = BindArtifacts(locals, LoadedArtifacts(disk))
            /\ rendered' = Append(rendered, El("success", "Models loaded successfully!", <<>>))
            /\ pc' = "form"
            /\ UNCHANGED outcome
    /\ UNCHANGED <<disk, runs, query, calls>>

\* The form without the "if submitted:" guard after it.
FormStepIgnoringSubmit(defs) ==
    /\ pc = "form"
    /\ \E age \in {defs.age} \cup AgeEdits, sex \in SexOptions, pressed \in BOOLEAN :
          locals' = [defs EXCEPT !.age = age, !.sex = sex]
                      @@ ("submitted" :> pressed) @@ locals
    /\ pc' = "submitted"
    /\ rendered' = rendered \o
          << El("title", "OHCA Sodium Bicarbonate ITE Predictor", <<>>),
             El("form", "patient_data_form", <<>>) >>
    /\ UNCHANGED <<disk, cache, loads, bodyRuns, runs, query, calls, outcome>>

\* Lines 29-82 with the widgets created with value= defs: the title, the form,
\* and the values the widgets return.  The user leaves Age alone or edits it,
\* picks a Sex, and has pressed the button in this run or has not.
FormStep(defs) ==
    /\ pc = "form"
    /\ \E age \in {defs.age} \cup AgeEdits, sex \in SexOptions, pressed \in BOOLEAN :
          /\ locals' = [defs EXCEPT !.age = age, !.sex = sex]
                         @@ ("submitted" :> pressed) @@ locals
          /\ IF pressed
             THEN pc' = "submitted" /\ UNCHANGED outcome
             ELSE EndRun("no_submission")
    /\ rendered' = rendered \o
          << El("title", "OHCA Sodium Bicarbonate ITE Predictor", <<>>),
             El("form", "patient_data_form", <<>>) >>
    /\ UNCHANGED <<disk, cache, loads, bodyRuns, runs, query, calls>>

\* The form of streamlit_app.py: every widget has its hard-coded value=.
PatientDataForm == FormStep(Defaults)

\* Lines 84-112: input_data, the DataFrame, and its columns in the order of
\* covariates_list.  The selection is outside the try: a KeyError leaves the
\* script.
AssembleRecord ==
    /\ pc = "submitted"
    /\ calls' = Append(calls, "assemble")
    /\ IF SelectRaises(InputData(locals), locals.covariates_list)
       THEN /\ locals' = Bind(locals, "df", InputData(locals))
            /\ rendered' = Append(rendered, El("exception", "KeyError", <<>>))
            /\ EndRun("uncaught")
       ELSE /\ locals' = Bind(locals, "df",
                              SelectColumns(InputData(locals), locals.covariates_list))
            /\ pc' = "impute"
            /\ UNCHANGED <<rendered, outcome>>
    /\ UNCHANGED <<disk, cache, loads, bodyRuns, runs, query>>

\* Line 117: X_imputed = imputer.transform(df), outside the try.
ImputerTransform ==
    /\ pc = "impute"
    /\ calls' = Append(calls, "transform")
    /\ IF TransformRaises(locals.imputer, locals.df)
       THEN /\ rendered' = Append(rendered, El("exception", "ValueError", <<>>))
            /\ EndRun("uncaught")
            /\ UNCHANGED locals
       ELSE /\ locals' = Bind(locals, "X_imputed", Transform(locals.imputer, locals.df))
            /\ pc' = "effect"
            /\ UNCHANGED <<rendered, outcome>>
    /\ UNCHANGED <<disk, cache, loads, bodyRuns, runs, query>>

\* except Exception as e: st.error(f"Prediction failed: {e}")
PredictionFailed ==
    /\ rendered' = Append(rendered, El("error", "Prediction failed", <<>>))
    /\ EndRun("failed")

\* Lines 120-123: the model's effect call and the percentage, inside the try.
ModelEffect ==
    /\ pc = "effect"
    /\ calls' = Append(calls, "effect")
    /\ IF EffectRaises(locals.model, locals.X_imputed)
       THEN /\ PredictionFailed
            /\ UNCHANGED locals
       ELSE /\ locals' =
                 Bind(Bind(locals, "ite_pred", Effect(locals.model, locals.X_imputed)),
                      "ite_percent",
                      ItePercent(Effect(locals.model, locals.X_imputed)))
            /\ pc' = "metric"
            /\ UNCHANGED <<rendered, outcome>>
    /\ UNCHANGED <<disk, cache, loads, bodyRuns, runs, query>>

\* Lines 125-131: the divider, the header and the metric.
RenderMetric ==
    /\ pc = "metric"
    /\ \E s \in FormatFixed(locals.ite_percent, 2) :
          rendered' = rendered \o
             << El("divider", "", <<>>),
                El("header", "Prediction Results", <<>>),
                El("metric", "Predicted ITE", s \o <<"%">>) >>
    /\ pc' = "recommend"
    /\ UNCHANGED <<disk, cache, loads, bodyRuns, runs, query, locals, calls, outcome>>

\* The recommendation and the line under it, for bounds lo and up.
RecommendationElements(ite, lo, up) ==
    LET los == { s \o <<"%">> : s \in FormatFixed(lo * 100, 1) }
        ups == { s \o <<"%">> : s \in FormatFixed(up * 100, 1) }
        rec == Recommendation(ite, lo, up)
    IN  IF rec = "give"
        THEN { << El("success", "give", <<>>), El("markdown", "ITE >", u) >> :
                 u \in ups }
        ELSE IF rec = "do_not_give"
        THEN { << El("error", "do_not_give", <<>>), El("markdown", "ITE <", l) >> :
                 l \in los }
        ELSE { << El("warning", "no_difference", <<>>),
                  El("markdown", "<= ITE <=", l \o <<" ">> \o u) >> :
                 l \in los, u \in ups }

\* Lines 139-151: the two bounds and the recommendation, inside the try.
Recommend ==
    /\ pc = "recommend"
    /\ IF CutoffsRaise(locals.cutoffs)
       THEN /\ PredictionFailed
            /\ UNCHANGED locals
       ELSE /\ locals' = Bind(Bind(locals, "lower_bound", LowerBound(locals.cutoffs)),
                              "upper_bound", UpperBound(locals.cutoffs))
            /\ \E els \in RecommendationElements(locals.ite_pred,
                                                 LowerBound(locals.cutoffs),
                                                 UpperBound(locals.cutoffs)) :
                  rendered' = rendered \o els
            /\ EndRun("ok")
    /\ UNCHANGED <<disk, cache, loads, bodyRuns, runs, query, calls>>

Next ==
    \/ Rerun
    \/ LoadResources
    \/ PatientDataForm
    \/ AssembleRecord
    \/ ImputerTransform
    \/ ModelEffect
    \/ RenderMetric
    \/ Recommend

Spec == Init /\ [][Next]_vars

-----------------------------------------------------------------------------
(* The variant of the script that reads URL parameters.  Its source is not *)
(* among the files modelled above; this part follows the specification:    *)
(* a parameter named like a field replaces the field's default, and a      *)
(* value that does not parse leaves the hard-coded default.                *)

\* The raw values a URL may give a parameter: "40" and "abc".
RawValues == { <<"4", "0">>, <<"a", "b", "c">> }

\* The fields the modelled URLs may name.
QueryKeys == {"age", "responsetime"}

\* The URLs: any subset of the keys, each with a raw value.
Queries == UNION { [K -> RawValues] : K \in SUBSET QueryKeys }

IsDigit(c) == \E d \in 0..9 : DigitChar(d) = c

\* Whether the raw value parses as a number.
WellFormed(raw) == Len(raw) > 0 /\ \A i \in 1..Len(raw) : IsDigit(raw[i])

RECURSIVE ParseDigits(_)
\* The number a string of digits denotes.
ParseDigits(raw) ==
    IF Len(raw) = 0 THEN 0
    ELSE 10 * ParseDigits(SubSeq(raw, 1, Len(raw) - 1))
           + (CHOOSE d \in 0..9 : DigitChar(d) = raw[Len(raw)])

\* A coercion whose fallback is zero.
CoerceOrZero(raw, default) == IF WellFormed(raw) THEN ParseDigits(raw) ELSE 0

\* The type coercion with its fallback.
Coerce(raw, default) == IF WellFormed(raw) THEN ParseDigits(raw) ELSE default

\* The value= of each widget under the URL's parameters q.
OverriddenDefaults(q) ==
    [ f \in FieldNames |->
        IF f \in DOMAIN q THEN Coerce(q[f], Defaults[f]) ELSE Defaults[f] ]

\* A page load with URL parameters.
RerunWithQuery ==
    /\ pc = "idle"
    /\ runs < MaxRuns
    /\ query' \in Queries
    /\ runs' = runs + 1
    /\ pc' = "load"
    /\ locals' = Empty
    /\ rendered' = <<>>
    /\ calls' = <<>>
    /\ outcome' = "running"
    /\ UNCHANGED <<disk, cache, loads, bodyRuns>>

\* The form with its defaults taken from the URL.
PatientDataFormOverride == FormStep(OverriddenDefaults(query))

NextOverride ==
    \/ RerunWithQuery
    \/ LoadResources
    \/ PatientDataFormOverride
    \/ AssembleRecord
    \/ ImputerTransform
    \/ ModelEffect
    \/ RenderMetric
    \/ Recommend

SpecOverride == Init /\ [][NextOverride]_vars

-----------------------------------------------------------------------------
(* Properties                                                              *)

RecMsgs == {"give", "do_not_give", "no_difference"}

\* Where on the page the recommendations and the metrics are.
RecAt == { i \in 1..Len(rendered) : rendered[i].msg \in RecMsgs }
MetricAt == { i \in 1..Len(rendered) : rendered[i].kind = "metric" }

\* The recommendation on the page, when there is exactly one.
TheRec == rendered[CHOOSE i \in RecAt : TRUE].msg
TheMetric == rendered[CHOOSE i \in MetricAt : TRUE].text

\* The three buckets as the specification words them, over the artifact's
\* second and third cutoffs.
Bucket(ite, c) ==
    CASE ite > c[3] -> "give"
      [] ite <= c[3] /\ ite < c[2] -> "do_not_give"
      [] OTHER -> "no_difference"

\* C1: a successful prediction renders exactly one recommendation, the bucket
\* of the ITE against the second and third cutoffs: above the third "give",
\* else below the second "do not give", else "no significant difference".
C1_RecommendationFromInnerCutoffs ==
    outcome = "ok" =>
        /\ Cardinality(RecAt) = 1
        /\ TheRec = Bucket(locals.ite_pred, disk.cutoffs)

\* The 0.02 example, under cutoffs whose outer values lie within the ITEs seen.
C1_Witness ==
    /\ outcome = "ok"
    /\ locals.ite_pred = 2000
    /\ disk.cutoffs = <<-5000, -4000, 6000, 7000>>
    /\ TheRec = "no_difference"

\* C2: an ITE equal to the lower or to the upper cutoff is classified "no
\* significant difference".
C2_BoundariesInMiddleBucket ==
    (outcome = "ok" /\ locals.ite_pred \in {disk.cutoffs[2], disk.cutoffs[3]})
        => (RecAt # {} /\ \A i \in RecAt : rendered[i].msg = "no_difference")

\* An ITE on the upper cutoff, and not on the lower one.
C2_Witness ==
    /\ outcome = "ok"
    /\ locals.ite_pred = disk.cutoffs[3]
    /\ locals.ite_pred # disk.cutoffs[2]
    /\ TheRec = "no_difference"

\* C3: the row handed to the imputer has the loaded covariate list's columns,
\* as many and in that order, each holding the value of the field it names.
C3_RowInCovariateOrder ==
    (pc = "impute" \/ (Len(calls) >= 2 /\ calls[2] = "transform")) =>
        /\ locals.df.columns = disk.covariates
        /\ Len(locals.df.row) = Len(disk.covariates)
        /\ \A i \in 1..Len(disk.covariates) :
              locals.df.row[i] = locals[disk.covariates[i]]

\* A covariate list in another order than the dict literal's, with values
\* that tell the first two columns apart.
C3_Witness ==
    /\ calls = <<"assemble", "transform">>
    /\ disk.covariates = SexFirst
    /\ locals.sex = 1
    /\ locals.df.row[1] = 1
    /\ locals.df.row[2] = 40

\* C4: no exception of a submission's inference leaves the script: each ends
\* in the "Prediction failed" error.
C4_InferenceExceptionsCaught ==
    /\ outcome # "uncaught"
    /\ \A i \in 1..Len(rendered) : rendered[i].kind # "exception"

\* C5: when one of the four artifacts fails to load, a run shows the error and
\* stops: no form, no call, no result, nothing bound, nothing cached.
C5_LoadFailureStopsRun ==
    ((\E a \in ArtifactNames : a \notin disk.present) /\ runs > 0 /\ pc # "load") =>
        /\ pc = "idle"
        /\ outcome = "stopped"
        /\ rendered = << El("error", "Error loading models", <<>>) >>
        /\ calls = <<>>
        /\ locals = Empty
        /\ cache = {}

\* Three artifacts load and the fourth, the cutoffs, does not.
C5_Witness ==
    /\ disk.present = ArtifactNames \ {"cutoffs"}
    /\ outcome = "stopped"
    /\ runs = 2

\* The value= the specification gives a field under the URL in query: the
\* parameter's number when it names the field and parses, else the default.
OverrideOf(f) ==
    IF f \in DOMAIN query /\ query[f] = <<"4", "0">> THEN 40 ELSE Defaults[f]

\* C6: a URL parameter replaces its field's default; one that does not parse
\* leaves the hard-coded default, and the form is presented all the same.
C6_OverrideOrDefault ==
    Bound("submitted") =>
        /\ \E i \in 1..Len(rendered) : rendered[i].kind = "form"
        /\ locals.age \in {OverrideOf("age")} \cup AgeEdits
        /\ \A f \in FieldNames \ {"age", "sex"} : locals[f] = OverrideOf(f)

\* A malformed age beside a well-formed response time.
C6_Witness ==
    /\ Bound("submitted")
    /\ DOMAIN query = {"age", "responsetime"}
    /\ query.age = <<"a", "b", "c">>
    /\ query.responsetime = <<"4", "0">>
    /\ locals.age = 65
    /\ locals.responsetime = 40

InnerCutoffsOfComment == disk.cutoffs[2] = -4000 /\ disk.cutoffs[3] = 6000

\* C7: the metric shows the ITE times 100 with two decimals and a percent
\* sign, beside the matching recommendation: 0.10 is 10.00% with "give" and
\* -0.10 is -10.00% with "do not give" under the cutoffs -0.04 and 0.06.
C7_MetricIsPercent ==
    /\ MetricAt # {} =>
          /\ Cardinality(MetricAt) = 1
          /\ TheMetric \in { t \o <<"%">> : t \in FormatFixed(locals.ite_pred * 100, 2) }
          /\ Len(TheMetric) >= 5
          /\ TheMetric[Len(TheMetric) - 3] = "."
    /\ (outcome = "ok" /\ InnerCutoffsOfComment /\ locals.ite_pred = 10000) =>
          /\ TheMetric = <<"1", "0", ".", "0", "0", "%">>
          /\ TheRec = "give"
    /\ (outcome = "ok" /\ InnerCutoffsOfComment /\ locals.ite_pred = -10000) =>
          /\ TheMetric = <<"-", "1", "0", ".", "0", "0", "%">>
          /\ TheRec = "do_not_give"

C7_Witness ==
    /\ outcome = "ok"
    /\ InnerCutoffsOfComment
    /\ locals.ite_pred = -10000
    /\ TheMetric = <<"-", "1", "0", ".", "0", "0", "%">>

\* C8: the artifacts are loaded from disk at most once in the process; a run
\* that has them has the cache's.
C8_LoadedAtMostOnce ==
    /\ loads <= 1
    /\ cache # {} => loads = 1
    /\ Bound("model") =>
          cache = { [ model |-> locals.model, covariates |-> locals.covariates_list,
                      cutoffs |-> locals.cutoffs, imputer |-> locals.imputer ] }

\* A later run that has the artifacts without a second load.
C8_Witness ==
    /\ runs >= 2
    /\ Bound("model")
    /\ loads = 1
    /\ bodyRuns = 1

IsPrefix(s, t) == Len(s) <= Len(t) /\ \A i \in 1..Len(s) : s[i] = t[i]

\* C9: only a submitted run assembles the record, calls the imputer, then the
\* model on the imputer's output, each once and in that order; the metric
\* comes after them and the recommendation after the metric.  A run without
\* submission calls nothing and renders no result.
C9_CallOrder ==
    /\ IsPrefix(calls, <<"assemble", "transform", "effect">>)
    /\ calls # <<>> => (Bound("submitted") /\ locals.submitted)
    /\ (Bound("submitted") /\ ~locals.submitted) =>
          (calls = <<>> /\ MetricAt = {} /\ RecAt = {} /\ pc = "idle")
    /\ MetricAt # {} =>
          /\ calls = <<"assemble", "transform", "effect">>
          /\ locals.df.columns = locals.covariates_list
          /\ locals.X_imputed = locals.df.row
          /\ locals.ite_pred = locals.model.intercept
                                 + locals.model.slope * locals.X_imputed[1]
    /\ \A r \in RecAt : \E m \in MetricAt : m < r

C9_Witness ==
    /\ outcome = "ok"
    /\ calls = <<"assemble", "transform", "effect">>
    /\ RecAt # {}

\* How a submitted run ends, from the artifacts alone.
ExpectedOutcome ==
    IF \E i \in 1..Len(disk.covariates) : disk.covariates[i] \notin FieldNames
    THEN "uncaught"
    ELSE IF Len(disk.covariates) # disk.imputer.n_features_in THEN "uncaught"
    ELSE IF Len(disk.covariates) # disk.model.n_features_in THEN "failed"
    ELSE IF Len(disk.cutoffs) < 3 THEN "failed"
    ELSE "ok"

\* The ITE of this run's field values under the artifacts on disk.
ExpectedIte ==
    disk.model.intercept + disk.model.slope * locals[disk.covariates[1]]

\* C10: a submission keeps no state.  Every run starts with nothing bound, the
\* cached artifacts stay the ones loaded, and how a submitted run ends, its ITE
\* and its recommendation follow from its own field values and the artifacts.
C10_NoStateKept ==
    /\ cache # {} => cache = {LoadedArtifacts(disk)}
    /\ pc = "load" => (locals = Empty /\ rendered = <<>> /\ calls = <<>>)
    /\ (pc = "idle" /\ Bound("submitted") /\ locals.submitted) =>
          /\ outcome = ExpectedOutcome
          /\ outcome = "ok" =>
                /\ locals.ite_pred = ExpectedIte
                /\ TheRec = Bucket(ExpectedIte, disk.cutoffs)

\* A later submission whose ITE depends on the age typed into it.
C10_Witness ==
    /\ runs >= 2
    /\ outcome = "ok"
    /\ disk.model.slope = 1
    /\ locals.age = 40
    /\ locals.ite_pred = disk.model.intercept + 40

====
